---- MODULE Spec2Model ----
(***************************************************************************)
(* A model of the resume-matcher backend: the session check, the upload    *)
(* (analysis) pipeline, the chat pipeline, the record store operations and *)
(* the normalisation of the language model's output.                       *)
(*                                                                         *)
(* Text is modelled as a sequence of tokens.  A token is a brace, a        *)
(* period, a plain word, or a whole JSON member ("key": value).  A JSON    *)
(* value is a tagged sequence of pieces: a string ("" has no pieces), a    *)
(* list, or null.                                                          *)
(***************************************************************************)
EXTENDS Integers, Sequences, FiniteSets, TLC

VARIABLES
    content,    \* response.content of the model call under normalisation
    result,     \* what analyze_resume's parsing block returned for it
    now,        \* the clock (datetime.utcnow()), in days
    store,      \* the rows of table resume_analysis
    nextId,     \* the next fresh row id (uuid.uuid4())
    req,        \* the requests in flight on /analyze-resume and /chat, per slot
    last,       \* the request completed by the latest step, with its response
    returned,   \* history: ids of the rows returned by successful uploads
    deleted     \* history: ids of the rows removed by successful deletes

normVars == <<content, result>>

svcVars == <<now, store, nextId, req, last, returned, deleted>>

vars == <<content, result, now, store, nextId, req, last, returned, deleted>>

\* ------------------------------------------------------------------ bounds

\* longest model output, in tokens, that the normaliser is run on
MaxLen == 4

\* concurrent requests in flight on the multi-step routes
MaxReq == 2

\* the clock runs from 0 to MaxTime
MaxTime == 1

\* uploads that reach the store layer
MaxUploads == 2

Slots == 1..MaxReq

Users == {"alice", "bob"}

\* ------------------------------------------------------------------ values

Null == [ty |-> "null", items |-> <<>>]

Absent == [ty |-> "absent", items |-> <<>>]

Str(pieces) == [ty |-> "str", items |-> pieces]

List(elems) == [ty |-> "list", items |-> elems]

\* Python truthiness of a JSON value: None, "" and [] are falsy
Truthy(v) == v.ty \in {"str", "list"} /\ v.items # <<>>

\* ------------------------------------------------------------------ tokens

LBrace == [kind |-> "lbrace", txt |-> "{", key |-> "", val |-> Null]

RBrace == [kind |-> "rbrace", txt |-> "}", key |-> "", val |-> Null]

Period == [kind |-> "period", txt |-> ".", key |-> "", val |-> Null]

Word(w) == [kind |-> "word", txt |-> w, key |-> "", val |-> Null]

Pair(k, v) == [kind |-> "pair", txt |-> k, key |-> k, val |-> v]

\* the pieces of text a token is made of
TextPieces(tok) ==
    IF tok.kind = "pair" THEN <<tok.key>> \o tok.val.items ELSE <<tok.txt>>

\* str.lower() on the pieces the model uses
Lower(s) ==
    CASE s = "Python" -> "python"
      [] s = "JavaScript" -> "javascript"
      [] s = "Leadership" -> "leadership"
      [] s = "Communication" -> "communication"
      [] OTHER -> s

\* kw in text.lower()
ContainsLower(text, kw) ==
    \E i \in DOMAIN text :
        \E j \in DOMAIN TextPieces(text[i]) : Lower(TextPieces(text[i])[j]) = kw

\* '.' in text
HasPeriod(text) == \E i \in DOMAIN text : text[i].kind = "period"

RECURSIVE Flatten(_)
Flatten(text) ==
    IF text = <<>> THEN <<>>
    ELSE TextPieces(Head(text)) \o Flatten(Tail(text))

\* text.split('.')[0]
BeforeFirstPeriod(text) ==
    LET i == CHOOSE k \in DOMAIN text :
                 /\ text[k].kind = "period"
                 /\ \A m \in 1..(k - 1) : text[m].kind # "period"
    IN  SubSeq(text, 1, i - 1)

\* ------------------------------------------------------------------ normaliser

RequiredFields ==
    {"summary", "job_roles", "soft_skills", "technical_skills", "sentiment",
     "tone", "suggested_jobs", "improvement_areas", "experience_level"}

\* the defaults dict of the JSON path
defaults ==
    [summary |-> Str(<<"Professional with diverse skills and experience.">>),
     job_roles |-> List(<<"Software Engineer", "Project Manager", "Data Analyst">>),
     soft_skills |-> List(<<"Communication", "Teamwork", "Problem-solving", "Leadership">>),
     technical_skills |-> List(<<"Various technologies">>),
     sentiment |-> Str(<<"Positive">>),
     tone |-> Str(<<"Professional">>),
     suggested_jobs |-> List(<<"Software Developer", "Technical Lead">>),
     improvement_areas |-> List(<<"Add more specific achievements", "Include quantifiable results">>),
     experience_level |-> Str(<<"Mid">>)]

\* re.search(r'\{[\s\S]*\}', content): greedy, first "{" to last "}"
HasJsonMatch(text) ==
    \E i, j \in DOMAIN text :
        i < j /\ text[i].kind = "lbrace" /\ text[j].kind = "rbrace"

JsonMatch(text) ==
    LET i == CHOOSE k \in DOMAIN text :
                 /\ text[k].kind = "lbrace"
                 /\ \A m \in 1..(k - 1) : text[m].kind # "lbrace"
        j == CHOOSE k \in DOMAIN text :
                 /\ text[k].kind = "rbrace"
                 /\ \A m \in (k + 1)..Len(text) : text[m].kind # "rbrace"
    IN  SubSeq(text, i, j)

\* json.loads succeeds on "{" members "}" and raises JSONDecodeError otherwise
JsonParses(js) ==
    \A i \in 2..(Len(js) - 1) : js[i].kind = "pair"

\* the parsed object on the required keys; a repeated key keeps its last value
JsonLoads(js) ==
    [k \in RequiredFields |->
        IF \E i \in 2..(Len(js) - 1) : js[i].key = k
        THEN LET idx == CHOOSE i \in 2..(Len(js) - 1) :
                             /\ js[i].key = k
                             /\ \A m \in (i + 1)..(Len(js) - 1) : js[m].key # k
             IN  js[idx].val
        ELSE Absent]

\* a completion pass that fills only the keys that are missing
CompletionPassMissingOnly(analysis) ==
    [k \in RequiredFields |->
        IF analysis[k] = Absent THEN defaults[k] ELSE analysis[k]]

\* for key, default_value in defaults.items(): fill what is missing or falsy
CompletionPass(analysis) ==
    [k \in RequiredFields |->
        IF analysis[k] = Absent \/ ~Truthy(analysis[k]) THEN defaults[k]
        ELSE analysis[k]]

\* the keyword scan of _create_structured_response
FoundSkills(text) ==
    (IF ContainsLower(text, "python") THEN <<"Python">> ELSE <<>>)
    \o (IF ContainsLower(text, "javascript") THEN <<"JavaScript">> ELSE <<>>)
    \o (IF ContainsLower(text, "leadership") THEN <<"Leadership">> ELSE <<>>)
    \o (IF ContainsLower(text, "communication") THEN <<"Communication">> ELSE <<>>)

create_structured_response(text) ==
    [summary |->
        IF HasPeriod(text) THEN Str(Flatten(BeforeFirstPeriod(text)) \o <<".">>)
        ELSE Str(<<"Experienced professional with diverse background.">>),
     job_roles |-> List(<<"Software Engineer", "Project Manager", "Team Lead">>),
     soft_skills |-> List(<<"Communication", "Leadership", "Problem-solving", "Teamwork">>),
     technical_skills |->
        IF FoundSkills(text) # <<>> THEN List(FoundSkills(text))
        ELSE List(<<"Various technologies">>),
     sentiment |-> Str(<<"Positive">>),
     tone |-> Str(<<"Professional">>),
     suggested_jobs |-> List(<<"Software Developer", "Technical Lead", "Product Manager">>),
     improvement_areas |-> List(<<"Add more specific achievements", "Include quantifiable results">>),
     experience_level |-> Str(<<"Mid">>)]

\* which branch of the parsing block a model output takes
ParsePath(text) ==
    IF HasJsonMatch(text) /\ JsonParses(JsonMatch(text)) THEN "json" ELSE "fallback"

\* the parsing block of analyze_resume, after llm.invoke returned
parse_response(text) ==
    IF HasJsonMatch(text)
    THEN IF JsonParses(JsonMatch(text))
         THEN CompletionPass(JsonLoads(JsonMatch(text)))
         ELSE create_structured_response(text)
    ELSE create_structured_response(text)

\* ------------------------------------------------------------------ inputs

Alphabet ==
    {LBrace, RBrace, Period, Word("Python"), Word("resume"),
     Pair("summary", Str(<<"Seasoned engineer">>)),
     Pair("summary", Str(<<>>)),
     Pair("job_roles", List(<<>>)),
     Pair("technical_skills", List(<<"JavaScript", "SQL">>)),
     Pair("soft_skills", Str(<<"teamwork">>)),
     Pair("sentiment", Str(<<"Excellent">>)),
     Pair("tone", Null)}

Contents == UNION {[1..n -> Alphabet] : n \in 0..MaxLen}

NoResult == [returned |-> FALSE, path |-> "none", analysis |-> [k \in RequiredFields |-> Null]]

\* ------------------------------------------------------------------ session token

\* create_jwt's default lifetime, in days
expires_in_days == 7

NoCookie == [kind |-> "none", sub |-> "", iat |-> 0, exp |-> 0, sig |-> ""]

\* create_jwt for subject u at time t
create_jwt(u, t) ==
    [kind |-> "token", sub |-> u, iat |-> t, exp |-> t + expires_in_days, sig |-> "ok"]

NoPayload == [sub |-> "", iat |-> 0, exp |-> 0]

\* a session check that does not look at the expiry
verify_jwt_cookie_no_expiry(cookie, t) ==
    IF cookie.kind = "none"
    THEN [ok |-> FALSE, detail |-> "Not authenticated", payload |-> NoPayload]
    ELSE IF cookie.sig # "ok"
    THEN [ok |-> FALSE, detail |-> "Invalid token", payload |-> NoPayload]
    ELSE [ok |-> TRUE, detail |-> "",
          payload |-> [sub |-> cookie.sub, iat |-> cookie.iat, exp |-> cookie.exp]]

\* a session check that turns every token away right behind a /logout, as a
\* server-side session record cleared by /logout would
verify_jwt_cookie_revoked(cookie, t) ==
    IF cookie.kind = "none"
    THEN [ok |-> FALSE, detail |-> "Not authenticated", payload |-> NoPayload]
    ELSE IF cookie.sig # "ok" \/ last.route = "logout"
    THEN [ok |-> FALSE, detail |-> "Invalid token", payload |-> NoPayload]
    ELSE IF cookie.exp <= t
    THEN [ok |-> FALSE, detail |-> "Token expired", payload |-> NoPayload]
    ELSE [ok |-> TRUE, detail |-> "",
          payload |-> [sub |-> cookie.sub, iat |-> cookie.iat, exp |-> cookie.exp]]

\* verify_jwt_cookie at time t: the payload, or the 401 it raises
verify_jwt_cookie(cookie, t) ==
    IF cookie.kind = "none"
    THEN [ok |-> FALSE, detail |-> "Not authenticated", payload |-> NoPayload]
    ELSE IF cookie.sig # "ok"
    THEN [ok |-> FALSE, detail |-> "Invalid token", payload |-> NoPayload]
    ELSE IF cookie.exp <= t
    THEN [ok |-> FALSE, detail |-> "Token expired", payload |-> NoPayload]
    ELSE [ok |-> TRUE, detail |-> "",
          payload |-> [sub |-> cookie.sub, iat |-> cookie.iat, exp |-> cookie.exp]]

\* the cookies a client can present at time t: none, a token the server signed
\* at some earlier time (the secret outlives the process), or one whose
\* signature does not verify
IssueTimes(t) == {t - expires_in_days - 1, t - expires_in_days, t - 1, t}

Cookies(t) ==
    {NoCookie, [create_jwt("alice", t) EXCEPT !.sig = "bad"]}
    \cup {create_jwt(u, i) : u \in Users, i \in IssueTimes(t)}

\* ------------------------------------------------------------------ uploaded files

\* the size limit of /analyze-resume, in bytes
MaxUploadBytes == 10 * 1024 * 1024

PageError == "<extract_text raises>"

NoFile == [size |-> 0, header |-> "", parses |-> FALSE, pages |-> <<>>, filename |-> ""]

Files ==
    {[size |-> 2048, header |-> "%PDF", parses |-> TRUE,
      pages |-> <<"  ", PageError, "Experienced Python developer">>, filename |-> "cv.pdf"],
     [size |-> MaxUploadBytes, header |-> "%pdf", parses |-> TRUE,
      pages |-> <<"  ", PageError>>, filename |-> ""],
     [size |-> MaxUploadBytes + 1, header |-> "%PDF", parses |-> TRUE,
      pages |-> <<"Experienced Python developer">>, filename |-> "big.pdf"],
     [size |-> MaxUploadBytes + 1, header |-> "not ", parses |-> FALSE,
      pages |-> <<>>, filename |-> "big.bin"],
     [size |-> 9, header |-> "not ", parses |-> FALSE,
      pages |-> <<>>, filename |-> "notes.txt"],
     [size |-> 3, header |-> "%PD", parses |-> FALSE,
      pages |-> <<>>, filename |-> "cut.pdf"],
     [size |-> 2048, header |-> "%PDF", parses |-> FALSE,
      pages |-> <<>>, filename |-> "corrupt.pdf"],
     [size |-> 2048, header |-> "%PDF", parses |-> TRUE,
      pages |-> <<>>, filename |-> "nopages.pdf"]}

\* bytes.lower() on the four header bytes
LowerHeader(h) == IF h = "%PDF" THEN "%pdf" ELSE h

validate_pdf(f) ==
    IF f.size < 4 THEN FALSE
    ELSE IF LowerHeader(f.header) # "%pdf" THEN FALSE
    ELSE IF ~f.parses THEN FALSE
    ELSE Len(f.pages) > 0

\* str.strip() of a page's text
Strip(t) == IF t = "  " THEN "" ELSE t

\* the text parts extract_text_from_pdf keeps, in page order (joined by "\n")
RECURSIVE TextParts(_)
TextParts(pages) ==
    IF pages = <<>> THEN <<>>
    ELSE IF Head(pages) = PageError \/ Strip(Head(pages)) = ""
         THEN TextParts(Tail(pages))
         ELSE <<Head(pages)>> \o TextParts(Tail(pages))

extract_text_from_pdf(f) ==
    IF f.parses THEN [raised |-> FALSE, text |-> TextParts(f.pages)]
    ELSE [raised |-> TRUE, text |-> <<>>]

\* ------------------------------------------------------------------ rows

NoAnalysis == [k \in RequiredFields |-> Null]

NoRow ==
    [id |-> 0, user_id |-> "", resume_title |-> "", summary_text |-> Null,
     job_roles |-> Null, soft_skills |-> Null, technical_skills |-> Null,
     sentiment |-> Null, tone |-> Null, suggested_jobs |-> Null,
     improvement_areas |-> Null, experience_level |-> Null, created_at |-> 0]

\* the data dict of save_resume_analysis
MakeRow(id, user_id, resume_title, analysis, t) ==
    [id |-> id, user_id |-> user_id, resume_title |-> resume_title,
     summary_text |-> analysis["summary"],
     job_roles |-> analysis["job_roles"],
     soft_skills |-> analysis["soft_skills"],
     technical_skills |-> analysis["technical_skills"],
     sentiment |-> analysis["sentiment"],
     tone |-> analysis["tone"],
     suggested_jobs |-> analysis["suggested_jobs"],
     improvement_areas |-> analysis["improvement_areas"],
     experience_level |-> analysis["experience_level"],
     created_at |-> t]

\* file.filename or "resume.pdf"
ResumeTitle(f) == IF f.filename = "" THEN "resume.pdf" ELSE f.filename

UserRows(st, uid) == {r \in st : r.user_id = uid}

\* select * where user_id = uid order by created_at desc: every order of the
\* user's rows the store may answer with (rows of equal created_at in any order)
get_user_analyses(st, uid) ==
    LET rows == UserRows(st, uid)
        n == Cardinality(rows)
    IN  {q \in [1..n -> rows] :
            /\ \A i, j \in 1..n : i # j => q[i] # q[j]
            /\ \A i, j \in 1..n : i < j => q[i].created_at >= q[j].created_at}

\* a lookup that takes the other end of the ordered list
get_oldest_analysis(q) == IF q = <<>> THEN NoRow ELSE q[Len(q)]

\* analyses[0] if analyses else None
get_latest_analysis(q) == IF q = <<>> THEN NoRow ELSE q[1]

\* a delete that filters on the id alone
delete_analysis_any_owner(st, analysis_id, uid) ==
    {r \in st : r.id = analysis_id}

\* delete where id = analysis_id and user_id = uid: the rows it removes
delete_analysis(st, analysis_id, uid) ==
    {r \in st : r.id = analysis_id /\ r.user_id = uid}

\* ------------------------------------------------------------------ chat context

NoContext == [summary |-> Null, job_roles |-> Null, skills |-> Null, experience_level |-> Null]

\* ', '.join(v): over the items of a list, over the characters of a string
JoinComma(v) == [ty |-> "joined", items |-> <<v.ty>> \o v.items]

\* (soft_skills or []) + (technical_skills or []) raises TypeError on str + list
ContextRaises(row) == row.soft_skills.ty # row.technical_skills.ty

\* the resume_summary f-string of chat_with_ai
resume_summary(row) ==
    [summary |-> row.summary_text,
     job_roles |-> JoinComma(row.job_roles),
     skills |-> JoinComma([ty |-> row.soft_skills.ty,
                           items |-> row.soft_skills.items \o row.technical_skills.items]),
     experience_level |-> row.experience_level]

Apology ==
    "I apologize, but I'm having trouble processing your request right now. Please try again later."

ModelReply == "Consider adding metrics to your project descriptions."

\* ------------------------------------------------------------------ requests

ZeroCalls == [model |-> 0, reads |-> 0, writes |-> 0]

NoResp ==
    [status |-> 0, detail |-> "", reply |-> "", row |-> NoRow, rows |-> <<>>,
     cookie_op |-> "none", cookie |-> NoCookie, user |-> NoPayload]

\* an HTTPException or JSONResponse carrying only a status and a detail
ErrorResp(status, detail) == [NoResp EXCEPT !.status = status, !.detail = detail]

Idle ==
    [route |-> "none", pc |-> "idle", cred |-> "none", sub |-> "", file |-> NoFile,
     text |-> <<>>, out |-> <<>>, analysis |-> NoAnalysis, data |-> NoRow,
     message |-> Absent, latest |-> NoRow, context |-> NoContext, target |-> 0,
     resp |-> NoResp, stages |-> <<>>, calls |-> ZeroCalls, fault |-> "none", hits |-> 0]

\* history kept with a request: whether the model client or the store raised
\* on it (fault), and how many rows its store call matched (hits)
Faulted(r, what) == [r EXCEPT !.fault = what]

\* how a presented cookie stands at time t: absent, malformed, past its expiry,
\* at its expiry, or before it
CredClass(cookie, t) ==
    IF cookie.kind = "none" THEN "absent"
    ELSE IF cookie.sig # "ok" THEN "malformed"
    ELSE IF t > cookie.exp THEN "expired"
    ELSE IF t = cookie.exp THEN "boundary"
    ELSE "valid"

\* a request on `route` as it enters its handler (or is turned away by the
\* verify_jwt_cookie dependency)
Arrive(route, cookie) ==
    [Idle EXCEPT !.route = route, !.pc = "Received",
                 !.cred = CredClass(cookie, now),
                 !.sub = verify_jwt_cookie(cookie, now).payload.sub]

Finish(r, resp) == [r EXCEPT !.pc = "done", !.resp = resp]

Unauthorized(route, cookie) ==
    Finish(Arrive(route, cookie), ErrorResp(401, verify_jwt_cookie(cookie, now).detail))

\* the model outputs the service runs are given
ModelOutputs ==
    {<<Word("Python"), Word("resume"), Period, Word("Leadership")>>,
     <<Word("resume"), LBrace,
       Pair("summary", Str(<<"Seasoned engineer">>)),
       Pair("soft_skills", Str(<<"teamwork">>)),
       Pair("sentiment", Str(<<"Excellent">>)), RBrace>>}

\* ------------------------------------------------------------------ handlers

\* a handler runs once the previous response has left; the normaliser's
\* variables are not the service's
Ready == last = Idle /\ UNCHANGED normVars

\* a request may arrive once the previous response has left, or right behind
\* the response of /logout
Arriving ==
    /\ last = Idle \/ last.route = "logout"
    /\ UNCHANGED normVars

\* the request in slot s moves on to r
Step(s, r) == req' = [req EXCEPT ![s] = r] /\ last' = Idle

\* the request in slot s ends as r: the response is sent and the slot is free
Complete(s, r) == req' = [req EXCEPT ![s] = Idle] /\ last' = r

\* a request served within one step ends as r
Serve(r) == req' = req /\ last' = r

Called(r, what) == [r EXCEPT !.calls[what] = @ + 1]

\* uploads received that have not yet taken their row id
UploadsPending == Cardinality({s \in Slots : req[s].route = "analyze" /\ req[s].pc # "Saving"})

\* POST /set-cookie
set_cookie_endpoint ==
    /\ Arriving
    /\ \E u \in Users \cup {""} :
          Serve(Finish([Idle EXCEPT !.route = "set_cookie"],
                       IF u = "" THEN ErrorResp(400, "missing user in session")
                       ELSE [NoResp EXCEPT !.status = 200, !.detail = "cookie set",
                                           !.cookie_op = "set",
                                           !.cookie = create_jwt(u, now)]))
    /\ UNCHANGED <<now, store, nextId, returned, deleted>>

\* POST /logout
logout_endpoint ==
    /\ Arriving
    /\ Serve(Finish([Idle EXCEPT !.route = "logout"],
                    [NoResp EXCEPT !.status = 200, !.detail = "logged out",
                                   !.cookie_op = "clear"]))
    /\ UNCHANGED <<now, store, nextId, returned, deleted>>

\* GET /protected
protected_route ==
    /\ Arriving
    /\ \E cookie \in Cookies(now) :
          IF verify_jwt_cookie(cookie, now).ok
          THEN Serve(Finish(Arrive("protected", cookie),
                            [NoResp EXCEPT !.status = 200, !.detail = "Authenticated!",
                                           !.user = verify_jwt_cookie(cookie, now).payload]))
          ELSE Serve(Unauthorized("protected", cookie))
    /\ UNCHANGED <<now, store, nextId, returned, deleted>>

\* GET /me
get_current_user ==
    /\ Arriving
    /\ \E cookie \in Cookies(now) :
          IF verify_jwt_cookie(cookie, now).ok
          THEN Serve(Finish(Arrive("me", cookie),
                            [NoResp EXCEPT !.status = 200,
                                           !.user = verify_jwt_cookie(cookie, now).payload]))
          ELSE Serve(Unauthorized("me", cookie))
    /\ UNCHANGED <<now, store, nextId, returned, deleted>>

\* POST /analyze-resume: the session check and file.read()
analyze_receive(s) ==
    /\ Arriving
    /\ req[s].pc = "idle"
    /\ \E cookie \in Cookies(now), f \in Files :
          IF verify_jwt_cookie(cookie, now).ok
          THEN /\ (nextId - 1) + UploadsPending < MaxUploads
               /\ Step(s, [Arrive("analyze", cookie) EXCEPT !.file = f,
                                                         !.stages = <<"Received">>])
          ELSE Complete(s, Unauthorized("analyze", cookie))
    /\ UNCHANGED <<now, store, nextId, returned, deleted>>

\* the size check, then validate_pdf
analyze_validate(s) ==
    /\ Ready
    /\ req[s].route = "analyze" /\ req[s].pc = "Received"
    /\ IF req[s].file.size > MaxUploadBytes
       THEN Complete(s, Finish(req[s], ErrorResp(400, "File size too large (max 10MB)")))
       ELSE IF ~validate_pdf(req[s].file)
       THEN Complete(s, Finish(req[s],
                ErrorResp(400, "Invalid or unsupported file. Please upload a PDF.")))
       ELSE Step(s, [req[s] EXCEPT !.pc = "Validated", !.stages = Append(@, "Validated")])
    /\ UNCHANGED <<now, store, nextId, returned, deleted>>

\* an extraction step that does not check for blank text
analyze_extract_unchecked(s) ==
    /\ Ready
    /\ req[s].route = "analyze" /\ req[s].pc = "Validated"
    /\ Step(s, [req[s] EXCEPT !.pc = "Extracted",
                              !.text = extract_text_from_pdf(req[s].file).text,
                              !.stages = Append(@, "Extracted")])
    /\ UNCHANGED <<now, store, nextId, returned, deleted>>

\* extract_text_from_pdf, then the blank-text check
analyze_extract(s) ==
    /\ Ready
    /\ req[s].route = "analyze" /\ req[s].pc = "Validated"
    /\ LET x == extract_text_from_pdf(req[s].file)
       IN  IF x.raised
           THEN Complete(s, Finish(req[s], ErrorResp(500, "Error processing resume")))
           ELSE IF x.text = <<>>
           THEN Complete(s, Finish(req[s], ErrorResp(400, "No text found in PDF")))
           ELSE Step(s, [req[s] EXCEPT !.pc = "Extracted", !.text = x.text,
                                       !.stages = Append(@, "Extracted")])
    /\ UNCHANGED <<now, store, nextId, returned, deleted>>

\* analyzer.analyze_resume: self.llm.invoke(messages) answers or raises
analyze_invoke(s) ==
    /\ Ready
    /\ req[s].route = "analyze" /\ req[s].pc = "Extracted"
    /\ \/ \E o \in ModelOutputs :
             Step(s, [Called(req[s], "model") EXCEPT !.pc = "Analyzed", !.out = o,
                                                     !.stages = Append(@, "Analyzed")])
       \/ Complete(s, Finish(Faulted(Called(req[s], "model"), "model"),
                             ErrorResp(500, "Error processing resume")))
    /\ UNCHANGED <<now, store, nextId, returned, deleted>>

\* analyzer.analyze_resume: the parsing block on response.content
analyze_normalize(s) ==
    /\ Ready
    /\ req[s].route = "analyze" /\ req[s].pc = "Analyzed"
    /\ Step(s, [req[s] EXCEPT !.pc = "Normalized",
                              !.analysis = parse_response(req[s].out),
                              !.stages = Append(@, "Normalized")])
    /\ UNCHANGED <<now, store, nextId, returned, deleted>>

\* db.save_resume_analysis: the data dict, with its fresh id and its timestamp
save_begin(s) ==
    /\ Ready
    /\ req[s].route = "analyze" /\ req[s].pc = "Normalized"
    /\ Step(s, [req[s] EXCEPT !.pc = "Saving",
                              !.data = MakeRow(nextId, req[s].sub, ResumeTitle(req[s].file),
                                               req[s].analysis, now)])
    /\ nextId' = nextId + 1
    /\ UNCHANGED <<now, store, returned, deleted>>

\* a save whose failure answer leaves the row behind
save_execute_keeps_failed(s) ==
    /\ Ready
    /\ req[s].route = "analyze" /\ req[s].pc = "Saving"
    /\ store' = store \cup {req[s].data}
    /\ \/ /\ returned' = returned \cup {req[s].data.id}
          /\ Complete(s, Finish([Called(req[s], "writes") EXCEPT
                                      !.stages = @ \o <<"Persisted", "Returned">>],
                                [NoResp EXCEPT !.status = 200,
                                               !.detail = "Analysis completed successfully",
                                               !.row = req[s].data]))
       \/ /\ Complete(s, Finish(Faulted(Called(req[s], "writes"), "store"),
                                ErrorResp(500, "Error processing resume")))
          /\ UNCHANGED returned
    /\ UNCHANGED <<now, nextId, deleted>>

\* db.save_resume_analysis: insert(data).execute() lands or raises, and the
\* handler answers
save_execute(s) ==
    /\ Ready
    /\ req[s].route = "analyze" /\ req[s].pc = "Saving"
    /\ \/ /\ store' = store \cup {req[s].data}
          /\ returned' = returned \cup {req[s].data.id}
          /\ Complete(s, Finish([Called(req[s], "writes") EXCEPT
                                      !.stages = @ \o <<"Persisted", "Returned">>],
                                [NoResp EXCEPT !.status = 200,
                                               !.detail = "Analysis completed successfully",
                                               !.row = req[s].data]))
       \/ /\ Complete(s, Finish(Faulted(Called(req[s], "writes"), "store"),
                                ErrorResp(500, "Error processing resume")))
          /\ UNCHANGED <<store, returned>>
    /\ UNCHANGED <<now, nextId, deleted>>

\* the values body.get("message") can have
Messages == {Absent, Str(<<>>), Str(<<"How can I improve my resume?">>)}

\* a chat entry that does not check the message
chat_receive_unchecked(s) ==
    /\ Arriving
    /\ req[s].pc = "idle"
    /\ \E cookie \in Cookies(now), m \in Messages :
          IF verify_jwt_cookie(cookie, now).ok
          THEN Step(s, [Arrive("chat", cookie) EXCEPT !.message = m, !.pc = "Fetch"])
          ELSE Complete(s, Unauthorized("chat", cookie))
    /\ UNCHANGED <<now, store, nextId, returned, deleted>>

\* POST /chat: the session check, request.json() and the message check
chat_receive(s) ==
    /\ Arriving
    /\ req[s].pc = "idle"
    /\ \E cookie \in Cookies(now), m \in Messages :
          IF verify_jwt_cookie(cookie, now).ok
          THEN IF ~Truthy(m)
               THEN Complete(s, Finish([Arrive("chat", cookie) EXCEPT !.message = m],
                                       ErrorResp(400, "Message is required")))
               ELSE Step(s, [Arrive("chat", cookie) EXCEPT !.message = m, !.pc = "Fetch"])
          ELSE Complete(s, Unauthorized("chat", cookie))
    /\ UNCHANGED <<now, store, nextId, returned, deleted>>

\* db.get_latest_analysis, then the resume_summary string
chat_fetch(s) ==
    /\ Ready
    /\ req[s].route = "chat" /\ req[s].pc = "Fetch"
    /\ \/ \E q \in get_user_analyses(store, req[s].sub) :
             LET r == [Called(req[s], "reads") EXCEPT !.hits = Len(q)]
                 latest_analysis == get_latest_analysis(q)
             IN  IF q = <<>>
                 THEN Complete(s, Finish(r, ErrorResp(404, "No resume analysis found")))
                 ELSE IF ContextRaises(latest_analysis)
                 THEN Complete(s, Finish([r EXCEPT !.latest = latest_analysis],
                                         ErrorResp(500, "Error in chat")))
                 ELSE Step(s, [r EXCEPT !.pc = "Invoke", !.latest = latest_analysis,
                                        !.context = resume_summary(latest_analysis)])
       \/ Complete(s, Finish(Faulted(Called(req[s], "reads"), "store"),
                             ErrorResp(500, "Error in chat")))
    /\ UNCHANGED <<now, store, nextId, returned, deleted>>

\* a chat call that lets the model client's exception through to the handler
chat_with_context_raises(s) ==
    /\ Ready
    /\ req[s].route = "chat" /\ req[s].pc = "Invoke"
    /\ \/ Complete(s, Finish(Called(req[s], "model"),
                             [NoResp EXCEPT !.status = 200, !.reply = ModelReply]))
       \/ Complete(s, Finish(Faulted(Called(req[s], "model"), "model"),
                             ErrorResp(500, "Error in chat")))
    /\ UNCHANGED <<now, store, nextId, returned, deleted>>

\* analyzer.chat_with_context: self.llm.invoke answers, or raises and the
\* except branch returns the apology
chat_with_context(s) ==
    /\ Ready
    /\ req[s].route = "chat" /\ req[s].pc = "Invoke"
    /\ \/ Complete(s, Finish(Called(req[s], "model"),
                             [NoResp EXCEPT !.status = 200, !.reply = ModelReply]))
       \/ Complete(s, Finish(Faulted(Called(req[s], "model"), "model"),
                             [NoResp EXCEPT !.status = 200, !.reply = Apology]))
    /\ UNCHANGED <<now, store, nextId, returned, deleted>>

\* GET /summaries
get_summaries ==
    /\ Arriving
    /\ \E cookie \in Cookies(now) :
          IF verify_jwt_cookie(cookie, now).ok
          THEN \/ \E q \in get_user_analyses(store, verify_jwt_cookie(cookie, now).payload.sub) :
                     Serve(Finish([Called(Arrive("summaries", cookie), "reads")
                                      EXCEPT !.hits = Len(q)],
                                  [NoResp EXCEPT !.status = 200, !.rows = q]))
               \/ Serve(Finish(Faulted(Called(Arrive("summaries", cookie), "reads"), "store"),
                               ErrorResp(500, "Error fetching summaries")))
          ELSE Serve(Unauthorized("summaries", cookie))
    /\ UNCHANGED <<now, store, nextId, returned, deleted>>

\* the answer of delete_summary once db.delete_analysis returned `success`:
\* the HTTPException(404) is raised inside the try block and caught by its
\* `except Exception`
delete_summary_response(success) ==
    IF success
    THEN [NoResp EXCEPT !.status = 200, !.detail = "Analysis deleted successfully"]
    ELSE ErrorResp(500, "Error deleting summary")

\* DELETE /summaries/{analysis_id}
delete_summary ==
    /\ Arriving
    /\ \E cookie \in Cookies(now), analysis_id \in 0..MaxUploads :
        IF verify_jwt_cookie(cookie, now).ok
        THEN LET r == [Called(Arrive("delete", cookie), "writes") EXCEPT !.target = analysis_id]
                 gone == delete_analysis(store, analysis_id, r.sub)
             IN  \/ /\ store' = store \ gone
                    /\ deleted' = deleted \cup {x.id : x \in gone}
                    /\ Serve(Finish([r EXCEPT !.hits = Cardinality(gone)],
                                    delete_summary_response(gone # {})))
                    /\ UNCHANGED <<now, nextId, returned>>
                 \/ /\ Serve(Finish(Faulted(r, "store"), ErrorResp(500, "Error deleting summary")))
                    /\ UNCHANGED <<now, store, nextId, returned, deleted>>
        ELSE /\ Serve(Unauthorized("delete", cookie))
             /\ UNCHANGED <<now, store, nextId, returned, deleted>>

\* the response of the request that just completed leaves the server
Deliver ==
    /\ last # Idle
    /\ last' = Idle
    /\ UNCHANGED <<now, store, nextId, req, returned, deleted>>
    /\ UNCHANGED normVars

\* time passes
Tick ==
    /\ Ready
    /\ now < MaxTime
    /\ now' = now + 1
    /\ req' = req /\ last' = Idle
    /\ UNCHANGED <<store, nextId, returned, deleted>>

\* ------------------------------------------------------------------ the service

SvcInit ==
    /\ now = 0
    /\ store = {}
    /\ nextId = 1
    /\ req = [s \in Slots |-> Idle]
    /\ last = Idle
    /\ returned = {}
    /\ deleted = {}

Init == SvcInit /\ content = <<>> /\ result = NoResult

Next ==
    \/ set_cookie_endpoint
    \/ logout_endpoint
    \/ protected_route
    \/ get_current_user
    \/ get_summaries
    \/ delete_summary
    \/ Tick
    \/ Deliver
    \/ \E s \in Slots :
          \/ analyze_receive(s)
          \/ analyze_validate(s)
          \/ analyze_extract(s)
          \/ analyze_invoke(s)
          \/ analyze_normalize(s)
          \/ save_begin(s)
          \/ save_execute(s)
          \/ chat_receive(s)
          \/ chat_fetch(s)
          \/ chat_with_context(s)

Spec == Init /\ [][Next]_vars

\* ------------------------------------------------------------------ normaliser runs

NormInit ==
    /\ SvcInit
    /\ content \in Contents
    /\ result = NoResult

\* one run of the parsing block on the model output
Normalize ==
    /\ ~result.returned
    /\ result' = [returned |-> TRUE, path |-> ParsePath(content),
                  analysis |-> parse_response(content)]
    /\ UNCHANGED content
    /\ UNCHANGED svcVars

NormNext == Normalize

SpecNorm == NormInit /\ [][NormNext]_vars

\* ------------------------------------------------------------------ claims

\* C1: whatever the model output (an object that parses, one that does not,
\* or none), the parsing block returns a record in which each of the nine
\* required fields is present and truthy.
C1_NormalizedFieldsNonFalsy ==
    result.returned =>
        /\ DOMAIN result.analysis = RequiredFields
        /\ \A k \in RequiredFields : Truthy(result.analysis[k])

\* a parseable object whose summary is the empty string was completed
C1_Witness ==
    /\ result.returned
    /\ result.path = "json"
    /\ content = <<Word("resume"), LBrace, Pair("summary", Str(<<>>)), RBrace>>
    /\ result.analysis["summary"] = defaults["summary"]

\* C2: on the fallback path technical_skills is the list of the keywords
\* found and every other field but summary has the default of the policy
\* table (the defaults dict of the JSON path).
C2_FallbackUsesPolicyDefaults ==
    (result.returned /\ result.path = "fallback") =>
        /\ result.analysis["technical_skills"] = List(FoundSkills(content))
        /\ \A k \in RequiredFields \ {"summary", "technical_skills"} :
              result.analysis[k] = defaults[k]

\* the requests the state holds: those in flight and the one just completed
Requests == {req[s] : s \in Slots} \cup {last}

\* C3: an authenticated DELETE whose id matches no row of the caller is
\* answered 404, and 500 is answered only when the store call itself failed.
C3_DeleteOfMissingIs404 ==
    (last.route = "delete" /\ last.resp.status # 401) =>
        /\ (last.fault = "none" /\ last.hits = 0) => last.resp.status = 404
        /\ last.resp.status = 500 => last.fault = "store"

\* C4 (as claimed): a chat whose model call fails ends in the 500 error
\* outcome and never in a success response carrying a reply.
C4_ModelFailureIsChatFailed ==
    (last.route = "chat" /\ last.fault = "model") =>
        (last.resp.status = 500 /\ last.resp.reply = "")

\* C4 (amended): a chat whose model call fails ends in a 200 response whose
\* reply is the fixed apology text, after exactly one model call.
C4_ModelFailureIsApology ==
    (last.route = "chat" /\ last.fault = "model") =>
        /\ last.resp.status = 200
        /\ last.resp.reply = Apology
        /\ last.calls["model"] = 1

\* an authenticated chat with a message and an analysis, whose model call failed
C4_Witness ==
    /\ last.route = "chat" /\ last.fault = "model"
    /\ last.cred = "valid" /\ Truthy(last.message) /\ last.latest \in store

\* what the store read of the chat in slot s leads to: the request moved on,
\* or its response
C5_After(s) == IF req'[s].pc = "Invoke" THEN req'[s] ELSE last'

C5_Step(s) ==
    (req[s].route = "chat" /\ req[s].pc = "Fetch" /\ req'[s] # req[s]
        /\ C5_After(s).fault = "none") =>
        /\ (UserRows(store, req[s].sub) = {}) <=> (C5_After(s).resp.status = 404)
        /\ (UserRows(store, req[s].sub) # {}) =>
              /\ C5_After(s).latest \in UserRows(store, req[s].sub)
              /\ \A r \in UserRows(store, req[s].sub) :
                    r.created_at <= C5_After(s).latest.created_at
              /\ (C5_After(s).pc = "Invoke") =>
                    /\ C5_After(s).context.summary = C5_After(s).latest.summary_text
                    /\ C5_After(s).context.experience_level
                          = C5_After(s).latest.experience_level
                    /\ C5_After(s).context = resume_summary(C5_After(s).latest)
              /\ (C5_After(s).pc # "Invoke") =>
                    /\ C5_After(s).resp.status = 500
                    /\ ContextRaises(C5_After(s).latest)

StageOrder ==
    <<"Received", "Validated", "Extracted", "Analyzed", "Normalized", "Persisted", "Returned">>

IsPrefix(a, b) == Len(a) <= Len(b) /\ SubSeq(b, 1, Len(a)) = a

C6_Upload(r) ==
    (r.route = "analyze" /\ r.resp.status # 401) =>
        /\ r.stages # <<>> /\ IsPrefix(r.stages, StageOrder)
        /\ (r.calls["model"] > 0) =>
              /\ Len(r.stages) >= 3
              /\ r.file.size <= MaxUploadBytes
              /\ r.file.header \in {"%PDF", "%pdf"} /\ r.file.parses /\ r.file.pages # <<>>
              /\ r.text # <<>>
        /\ (r.calls["writes"] > 0 \/ r.data # NoRow) =>
              /\ Len(r.stages) >= 5
              /\ r.calls["model"] = 1
        /\ (r.pc = "done") =>
              /\ (r.file.size > MaxUploadBytes) =>
                    /\ r.resp = ErrorResp(400, "File size too large (max 10MB)")
                    /\ r.stages = <<"Received">>
              /\ (r.file.size <= MaxUploadBytes /\ r.file.header \notin {"%PDF", "%pdf"}) =>
                    /\ r.resp.status = 400
                    /\ r.stages = <<"Received">>
              /\ (r.resp.status = 400) => r.calls = ZeroCalls
              /\ (r.resp.status = 200) => r.stages = StageOrder
              /\ (r.resp.status # 200) => Len(r.stages) < 6

\* C6: an upload passes Received, Validated, Extracted, Analyzed, Normalized,
\* Persisted, Returned in that order without repeating one; the size check
\* comes before validation and extraction; the model is called only on a
\* valid file with non-blank text; the store is written only after the model
\* answered; a 400 rejection makes no model call and no store write.
C6_UploadStagesInOrder == \A r \in Requests : C6_Upload(r)

\* an upload that went through every stage
C6_Witness ==
    /\ last.route = "analyze" /\ last.resp.status = 200
    /\ last.stages = StageOrder

C7_State ==
    /\ {r.id : r \in store} = returned \ deleted
    /\ \A r1, r2 \in store : r1.id = r2.id => r1 = r2
    /\ \A r \in Requests : r.calls["model"] <= 1 /\ r.calls["writes"] <= 1
    /\ (last.route = "analyze" /\ last.pc = "done") =>
          IF last.resp.status = 200
          THEN last.resp.row \in store /\ last.resp.row.id \in returned
          ELSE last.data.id \notin returned
               /\ \A r \in store : r.id # last.data.id

C7_Step ==
    /\ \A r \in store : \A r2 \in store' : r2.id = r.id => r2 = r
    /\ (store' \ store # {}) =>
          /\ last'.route = "analyze" /\ last'.resp.status = 200
          /\ store' \ store = {last'.resp.row}
    /\ (last'.route = "analyze" /\ last'.pc = "done") =>
          IF last'.resp.status = 200
          THEN Cardinality(store' \ store) = 1
          ELSE store' = store

\* C7: the store holds exactly the rows of the uploads that returned success
\* and were not deleted since; a successful upload adds exactly one row, an
\* upload that ends in an error adds none; no request calls the model or
\* writes the store twice; no step changes a field of a stored row.
C7_OneRowPerSuccessfulUpload == []C7_State /\ [][C7_Step]_vars

\* one upload's row is stored while another upload of the same subject failed
\* at the store layer
C7_Witness ==
    /\ last.route = "analyze" /\ last.fault = "store"
    /\ \E r \in store : r.user_id = last.sub

ProtectedRoutes == {"protected", "me", "analyze", "chat", "summaries", "delete"}

C8_State ==
    /\ \A r \in Requests :
          (r.route \in ProtectedRoutes) =>
              /\ (r.cred \in {"absent", "malformed", "expired"}) =>
                    /\ r.pc = "done" /\ r.resp.status = 401
                    /\ r.calls = ZeroCalls
              /\ (r.cred = "valid") => r.resp.status # 401
    /\ (last.route = "set_cookie" /\ last.resp.status = 200) =>
          last.resp.cookie.exp = now + 7

C8_Step ==
    (last'.pc = "done" /\ last'.resp.status = 401) =>
        UNCHANGED <<store, nextId, returned, deleted>>

\* C8: on every protected route a request whose cookie is absent, malformed
\* or past its expiry (7 days after issue) is answered 401 and makes no model
\* call, no store read and no store write; a validly signed token presented
\* before its expiry is accepted.
C8_ProtectedRoutesNeedSession == []C8_State /\ [][C8_Step]_vars

\* an upload with an expired token was turned away while rows are stored
C8_Witness ==
    /\ last.route = "analyze" /\ last.cred = "expired" /\ last.resp.status = 401
    /\ store # {}

C9_State ==
    /\ (last.route = "summaries") =>
          \A i \in DOMAIN last.resp.rows : last.resp.rows[i].user_id = last.sub
    /\ \A r \in Requests :
          (r.route = "chat" /\ r.latest # NoRow) => r.latest.user_id = r.sub
    /\ (last.route = "analyze" /\ last.resp.status = 200) =>
          last.resp.row.user_id = last.sub

C9_Step ==
    /\ \A r \in store \ store' : last'.route = "delete" /\ last'.sub = r.user_id
    /\ \A r \in store' \ store : last'.route = "analyze" /\ last'.sub = r.user_id

\* C9: a row leaves the store, enters it or changes only by a request of its
\* owner; every row listed to a principal, used as its chat context or
\* returned by its upload is owned by that principal.
C9_RecordsIsolatedByOwner == []C9_State /\ [][C9_Step]_vars

\* a principal asked to delete a row of another principal, which is still stored
C9_Witness ==
    /\ last.route = "delete" /\ last.resp.status # 401
    /\ \E r \in store : r.id = last.target /\ r.user_id # last.sub

\* C10: an authenticated chat whose message is empty or missing is answered
\* 400 "Message is required" with no store read and no model call made.
C10_EmptyMessageRejectedFirst ==
    \A r \in Requests :
        (r.route = "chat" /\ r.resp.status # 401 /\ ~Truthy(r.message)) =>
            /\ r.pc = "done"
            /\ r.resp = ErrorResp(400, "Message is required")
            /\ r.calls = ZeroCalls

\* an authenticated chat with message "" was rejected while its subject owns a row
C10_Witness ==
    /\ last.route = "chat" /\ last.cred = "valid" /\ last.message = Str(<<>>)
    /\ last.resp.status = 400
    /\ UserRows(store, last.sub) # {}

\* the enumerations of the three label fields
SentimentLabels == {"Positive", "Neutral", "Needs Improvement"}

ToneLabels == {"Formal", "Conversational", "Mixed", "Professional"}

ExperienceLabels == {"Entry", "Mid", "Senior", "Executive"}

\* v is a string holding one of the labels
IsLabel(v, labels) == v.ty = "str" /\ Len(v.items) = 1 /\ v.items[1] \in labels

\* C11: every stored row has its sentiment, tone and experience_level inside
\* their enumerations, whatever text the model returned.
C11_PersistedLabelsInEnums ==
    \A r \in store :
        /\ IsLabel(r.sentiment, SentimentLabels)
        /\ IsLabel(r.tone, ToneLabels)
        /\ IsLabel(r.experience_level, ExperienceLabels)

SessionRoutes == {"set_cookie", "logout"}

\* the requests that arrive in a step: the one answered within it and the
\* ones that entered a slot
C12_Arrivals == ({last'} \cup {req'[s] : s \in {t \in Slots : req'[t] # req[t]}}) \ {Idle}

C12_State ==
    \A r \in Requests :
        (r.route \in ProtectedRoutes) =>
            /\ (r.resp.status = 401) <=> (r.cred # "valid")
            /\ (r.cred = "valid") => r.sub \in Users

C12_Step ==
    /\ (last'.route \in SessionRoutes /\ last' # last) =>
          UNCHANGED <<now, store, nextId, req, returned, deleted>>
    /\ (last.route = "logout") =>
          \A r \in C12_Arrivals :
              (r.route \in ProtectedRoutes) =>
                  /\ (r.resp.status = 401) <=> (r.cred # "valid")
                  /\ (r.cred = "valid") => r.sub \in Users

\* C12: the session check is stateless: on every protected route a request is
\* answered 401 exactly when its token, at the time it is presented, is absent,
\* malformed or no longer before its expiry; /logout and /set-cookie change no
\* server-side state; and a request that arrives right behind a /logout with
\* a token before its expiry is accepted.
C12_SessionIsStateless == []C12_State /\ [][C12_Step]_vars

\* /logout was answered while rows are stored and a request admitted with a
\* token before its expiry is still in flight
C12_Witness ==
    /\ last.route = "logout" /\ last.resp.status = 200
    /\ store # {}
    /\ \E s \in Slots : req[s].route \in ProtectedRoutes /\ req[s].cred = "valid"

====
